---- MODULE Spec2Model ----
(***************************************************************************)
(* Daily content cache of the SpaceView app (services/nasaLibrary.js).     *)
(*                                                                         *)
(* Time is counted in hours since 00:00 UTC on January 1 of BaseYear.      *)
(* A JavaScript object is a function from its own property names to        *)
(* values; a property holding `undefined` maps to Undefined.  A text whose *)
(* content does not matter is an opaque string, and Length gives the       *)
(* length of a description.  lastFetchDate null is NoDate.                 *)
(***************************************************************************)
EXTENDS Integers, Sequences, FiniteSets, TLC

\* ------------------------------------------------------------------ bounds
MaxCalls == 3      \* invocations of getCuratedImages in one behaviour
MaxTicks == 2      \* clock advances in one behaviour
MaxItems == 3      \* items in one search response
MaxProbeItems == 3 \* items in a response handed to the fetcher on its own
MaxCount == 3      \* the largest count handed to the fetcher on its own
MaxStoreCalls == 3 \* calls made on the Local Store on its own
MaxRaceTicks == 1  \* clock advances while invocations overlap
MaxProbeDay == 370 \* the last day, counted from January 1 of BaseYear, probed

\* --------------------------------------------------------------- constants
BaseYear      == 2026
StartHour     == 8736          \* 364 * 24: December 31 of BaseYear, 00:00 UTC
StepHours     == 12            \* one clock advance
HoursPerDay   == 24
MinDescLength == 50
FetchCount    == 2
Slots         == {1, 2}        \* invocations that may be in flight together
TzOffsets     == {-8, 0}       \* local time minus UTC, in hours

Undefined == "undefined"
NoDate    == <<>>

TOPICS == <<"james webb", "nebula", "black hole", "deep field", "planets", "galaxy">>

\* ---------------------------------------------------------------- calendar
IsLeap(y) == (y % 4 = 0 /\ y % 100 # 0) \/ y % 400 = 0

YearLen(y) == IF IsLeap(y) THEN 366 ELSE 365

MonthLen(y, m) ==
  IF m = 2 THEN (IF IsLeap(y) THEN 29 ELSE 28)
  ELSE IF m \in {4, 6, 9, 11} THEN 30 ELSE 31

\* <<year, 0-indexed day within the year>> of day number n, where day 0 is
\* January 1 of year y
RECURSIVE YearDay(_, _)
YearDay(y, n) == IF n < YearLen(y) THEN <<y, n>> ELSE YearDay(y + 1, n - YearLen(y))

\* <<month, day of month>> of the 0-indexed day n of year y, from month m on
RECURSIVE MonthDay(_, _, _)
MonthDay(y, m, n) ==
  IF n < MonthLen(y, m) THEN <<m, n + 1>> ELSE MonthDay(y, m + 1, n - MonthLen(y, m))

\* new Date().toISOString().split('T')[0]: the UTC calendar date, as
\* <<year, month, day>> standing for the text YYYY-MM-DD
getTodayDateString(t) ==
  LET yd == YearDay(BaseYear, t \div HoursPerDay)
      md == MonthDay(yd[1], 1, yd[2])
  IN  <<yd[1], md[1], md[2]>>

\* hours from local midnight of December 31 of the previous year (new
\* Date(year, 0, 0)) to the local wall-clock instant t + tz, in a zone
\* whose offset is constant over the year
SinceYearBase(t, tz) ==
  LET wall == t + tz
      yd   == YearDay(BaseYear, wall \div HoursPerDay)
  IN  HoursPerDay * (yd[2] + 1) + (wall % HoursPerDay)

dayOfYear(t, tz) == SinceYearBase(t, tz) \div HoursPerDay

\* the position taken modulo one less than the length of the list
TopicIndexShort(n, length) == n % (length - 1)

\* dayOfYear % length, the position in a topic list of that length
TopicIndex(n, length) == n % length

\* TOPICS[dayOfYear % TOPICS.length]
TopicOfCount(n) == TOPICS[TopicIndex(n, Len(TOPICS)) + 1]

getTodayTopic(t, tz) == TopicOfCount(dayOfYear(t, tz))

\* Zones that move their clocks.  An instant is counted in hours of the
\* zone's standard time since January 1 of BaseYear, 00:00; the clocks of
\* a "north" zone are one hour ahead on the standard days DstFirstDay to
\* DstLastDay of each year, those of a "south" zone on all other days, those
\* of a "none" zone never.
Zones == {"none", "north", "south"}
DstFirstDay == 66
DstLastDay  == 303

InDst(zone, doy) ==
  CASE zone = "north" -> doy \in DstFirstDay..DstLastDay
    [] zone = "south" -> doy \notin DstFirstDay..DstLastDay
    [] OTHER          -> FALSE

\* hours the clocks are ahead of standard time at instant s
DstAhead(s, zone) ==
  IF InDst(zone, YearDay(BaseYear, s \div HoursPerDay)[2]) THEN 1 ELSE 0

\* hours the clocks are ahead at local midnight of December 31
DstAtYearBase(zone) == IF InDst(zone, 364) THEN 1 ELSE 0

\* the local wall clock at instant s, in hours since January 1 of BaseYear
WallClock(s, zone) == s + DstAhead(s, zone)

\* <<year, 0-indexed day of the year>> the wall clock shows at instant s
LocalDate(s, zone) == YearDay(BaseYear, WallClock(s, zone) \div HoursPerDay)

\* today - new Date(today.getFullYear(), 0, 0) in hours: both dates are
\* instants, so the hour the clocks moved between them is not counted
ElapsedSinceYearBase(s, zone) ==
  HoursPerDay * (LocalDate(s, zone)[2] + 1) + (WallClock(s, zone) % HoursPerDay)
    - (DstAhead(s, zone) - DstAtYearBase(zone))

\* getTodayTopic() at instant s in the zone
getTodayTopicIn(s, zone) == TopicOfCount(ElapsedSinceYearBase(s, zone) \div HoursPerDay)

\* ------------------------------------------------------- the search results
\* The items a search response may carry.  data[1] is the primary data
\* entry; an item without links does not own the property links.
Link(rel, href) == [rel |-> rel, href |-> href]

ItemA == [data  |-> <<[nasa_id |-> "a", title |-> "title a", description |-> "text of 51 characters",
                       date_created |-> "2020", location |-> "loc a",
                       photographer |-> "ph a", secondary_creator |-> Undefined,
                       media_type |-> "image"]>>,
          links |-> <<Link("original", "https://a/orig"), Link("preview", "https://a/thumb")>>]

ItemB == [data  |-> <<[nasa_id |-> "b", title |-> "title b", description |-> "text of 80 characters",
                       date_created |-> "2021", location |-> Undefined,
                       photographer |-> Undefined, secondary_creator |-> "sc b",
                       media_type |-> "image"]>>]

ItemC == [data  |-> <<[nasa_id |-> "c", title |-> "title c", description |-> "text of 60 characters",
                       date_created |-> "2022", location |-> Undefined,
                       photographer |-> Undefined, secondary_creator |-> Undefined,
                       media_type |-> "image"]>>,
          links |-> <<Link("captions", "https://c/first")>>]

ItemD == [data  |-> <<[nasa_id |-> "d", title |-> "title d", description |-> "text of 50 characters",
                       date_created |-> "2023", location |-> "loc d",
                       photographer |-> "ph d", secondary_creator |-> Undefined,
                       media_type |-> "image"]>>,
          links |-> <<Link("preview", "https://d/thumb")>>]

ItemE == [data  |-> <<[nasa_id |-> "e", title |-> "title e", description |-> "text of 70 characters",
                       date_created |-> "2024", location |-> "loc e",
                       photographer |-> "ph e", secondary_creator |-> Undefined,
                       media_type |-> "video"]>>,
          links |-> <<Link("preview", "https://e/thumb")>>]

Catalogue == {ItemA, ItemB, ItemC, ItemD, ItemE}

\* the item lists of a response: distinct catalogue items, at most MaxItems
RECURSIVE ItemLists(_)
ItemLists(n) ==
  IF n = 0 THEN {<<>>}
  ELSE LET shorter == ItemLists(n - 1)
       IN  shorter \cup {Append(l, it) : l \in {s \in shorter : Len(s) = n - 1},
                                         it \in Catalogue}

Distinct(l) == \A i, j \in 1..Len(l) : i # j => l[i] # l[j]

Responses == {l \in ItemLists(MaxItems) : Distinct(l)}

\* the local file URI of `${id}.jpg` in the image directory
FileUri(id) ==
  CASE id = "a" -> "file:///cache/cached_images/a.jpg"
    [] id = "b" -> "file:///cache/cached_images/b.jpg"
    [] id = "c" -> "file:///cache/cached_images/c.jpg"
    [] id = "d" -> "file:///cache/cached_images/d.jpg"
    [] OTHER    -> "file:///cache/cached_images/e.jpg"

\* ------------------------------------------------------------ JS helpers
\* obj.key, which is undefined for a property the object does not own
Get(obj, key) == IF key \in DOMAIN obj THEN obj[key] ELSE Undefined

\* a || b
OrElse(a, b) == IF a = Undefined \/ a = "" THEN b ELSE a

\* obj with property key set to val ({...obj, key: val})
With(obj, key, val) ==
  [k \in (DOMAIN obj) \cup {key} |-> IF k = key THEN val ELSE obj[k]]

\* links?.find(l => l.rel === rel)?.href, searching from position i
RECURSIVE FindRel(_, _, _)
FindRel(item, rel, i) ==
  IF "links" \notin DOMAIN item THEN Undefined
  ELSE IF i > Len(item.links) THEN Undefined
  ELSE IF item.links[i].rel = rel THEN item.links[i].href
  ELSE FindRel(item, rel, i + 1)

\* links?.[0]?.href
FirstHref(item) ==
  IF "links" \notin DOMAIN item THEN Undefined
  ELSE IF Len(item.links) = 0 THEN Undefined ELSE item.links[1].href

\* text.length of a description
Length(text) ==
  CASE text = "text of 50 characters" -> 50
    [] text = "text of 51 characters" -> 51
    [] text = "text of 60 characters" -> 60
    [] text = "text of 70 characters" -> 70
    [] text = "text of 80 characters" -> 80

\* ----------------------------------------------------------- Remote Fetcher
\* the filter callback accepting a description of exactly the minimum length
IsValidImageAtLeast(item) ==
  LET hasData        == "data" \in DOMAIN item /\ Len(item.data) >= 1
      hasImage       == hasData /\ Get(item.data[1], "media_type") = "image"
      hasDescription == hasData /\ Get(item.data[1], "description") # Undefined
                                /\ Length(item.data[1].description) >= MinDescLength
  IN  hasImage /\ hasDescription

\* the filter callback of validImages
IsValidImage(item) ==
  LET hasData        == "data" \in DOMAIN item /\ Len(item.data) >= 1
      hasImage       == hasData /\ Get(item.data[1], "media_type") = "image"
      hasDescription == hasData /\ Get(item.data[1], "description") # Undefined
                                /\ Length(item.data[1].description) > MinDescLength
  IN  hasImage /\ hasDescription

validImages(items) == SelectSeq(items, IsValidImage)

\* the orders Array.prototype.sort may leave n elements in when its
\* comparator answers at random: every permutation of 1..n
ShuffleOrders(n) ==
  {p \in [1..n -> 1..n] : \A i, j \in 1..n : i # j => p[i] # p[j]}

\* the map callback: the record built from one item
ToRecord(item) ==
  [id           |-> item.data[1].nasa_id,
   title        |-> item.data[1].title,
   description  |-> item.data[1].description,
   date         |-> item.data[1].date_created,
   location     |-> item.data[1].location,
   photographer |-> OrElse(item.data[1].photographer, item.data[1].secondary_creator),
   url          |-> OrElse(OrElse(FindRel(item, "preview", 1), FirstHref(item)), ""),
   hdurl        |-> OrElse(OrElse(FindRel(item, "original", 1), FirstHref(item)), "")]

Min(a, b) == IF a < b THEN a ELSE b

\* shuffled.map(...) without the slice: every valid item becomes a record
SelectWithoutSlice(items, p, count) ==
  LET valid == validImages(items)
  IN  [i \in 1..Len(valid) |-> ToRecord(valid[p[i]])]

\* shuffled.slice(0, count).map(...) for the order p of the valid items
SelectRecords(items, p, count) ==
  LET valid == validImages(items)
  IN  [i \in 1..Min(count, Len(valid)) |-> ToRecord(valid[p[i]])]

\* The outcomes of the search request: the transport fails, the status is
\* not ok, reading the body fails, or the body carries a list of items.
FetchOutcomes ==
  {[kind |-> "transport"], [kind |-> "status"], [kind |-> "body"]}
    \cup {[kind |-> "ok", items |-> r] : r \in Responses}

\* fetchNASALibraryImages with response.json() awaited outside the try block
fetchUncaughtBody(out, p, count) ==
  IF out.kind = "ok" THEN [threw |-> FALSE, value |-> SelectRecords(out.items, p, count)]
  ELSE [threw |-> (out.kind = "body"), value |-> <<>>]

\* How fetchNASALibraryImages settles: threw is TRUE when the promise
\* rejects, value is what it resolves to.  Every error raised in its try
\* block (fetch, the status check, response.json(), the processing of the
\* body) is caught and turned into the empty array.
fetchNASALibraryImages(out, p, count) ==
  IF out.kind = "ok" THEN [threw |-> FALSE, value |-> SelectRecords(out.items, p, count)]
  ELSE [threw |-> FALSE, value |-> <<>>]

\* the orders the shuffle can produce for an outcome
Orders(out) ==
  IF out.kind = "ok" THEN ShuffleOrders(Len(validImages(out.items))) ELSE {<<>>}

\* every way the request for FetchCount records can settle: how the
\* request ended, and how fetchNASALibraryImages settled on it
SettledFetches ==
  UNION {{[kind |-> out.kind, res |-> fetchNASALibraryImages(out, p, FetchCount)] :
            p \in Orders(out)} : out \in FetchOutcomes}

\* -------------------------------------------------------------- Local Store
DefaultMeta == [lastFetchDate |-> NoDate, images |-> <<>>]

Absent == [kind |-> "absent"]

\* JSON.stringify writing null for a property that holds undefined, as it
\* does for an undefined element of an array
StringifyNulls(obj) ==
  [k \in DOMAIN obj |-> IF obj[k] = Undefined THEN "null" ELSE obj[k]]

\* JSON.stringify of an object: properties holding undefined are left out
StringifyObject(obj) ==
  [k \in {key \in DOMAIN obj : obj[key] # Undefined} |-> obj[k]]

\* the content metaFile.write(JSON.stringify(metadata)) stores
Stringify(m) ==
  [kind          |-> "json",
   lastFetchDate |-> m.lastFetchDate,
   images        |-> [i \in 1..Len(m.images) |-> StringifyObject(m.images[i])]]

\* a metadata file whose text JSON.parse rejects
TextContent == [kind |-> "text"]

\* JSON.parse throws a SyntaxError on this content
ParseThrows(c) == c.kind = "text"

\* JSON.parse of a stored content; kind "value" is a text JSON.parse
\* accepts that no saveCachedImagesMeta of this program wrote
Parse(c) ==
  IF c.kind = "value" THEN c.value
  ELSE [lastFetchDate |-> c.lastFetchDate, images |-> c.images]

\* initImageCache without the test metaFile.exists: the default metadata
\* is written at every start
initAlwaysWrites(dir, mf, createFails, writeFails) ==
  IF ~dir /\ createFails THEN [dir |-> FALSE, meta |-> mf]
  ELSE [dir  |-> TRUE,
        meta |-> IF ~writeFails THEN Stringify(DefaultMeta) ELSE mf]

\* initImageCache without its second step: the directory is created, the
\* metadata file never is
initDirOnly(dir, mf, createFails, writeFails) ==
  IF ~dir /\ createFails THEN [dir |-> FALSE, meta |-> mf]
  ELSE [dir |-> TRUE, meta |-> mf]

\* initImageCache: the directory and the metadata file it leaves.  A
\* failing create() is caught and skips the metadata step; a failing
\* write() is caught and leaves the file absent.
initImageCache(dir, mf, createFails, writeFails) ==
  IF ~dir /\ createFails THEN [dir |-> FALSE, meta |-> mf]
  ELSE [dir  |-> TRUE,
        meta |-> IF mf = Absent /\ ~writeFails THEN Stringify(DefaultMeta) ELSE mf]

\* getCachedImagesMeta: the parsed content, returned as parsed, or the
\* default when the file is absent or textSync or JSON.parse throws
getCachedImagesMeta(mf, readFails) ==
  IF mf # Absent /\ ~readFails /\ ~ParseThrows(mf) THEN Parse(mf) ELSE DefaultMeta

\* saveCachedImagesMeta that loses the date of the metadata it is given
saveWithoutDate(mf, metadata, writeFails) ==
  IF writeFails THEN mf
  ELSE Stringify([lastFetchDate |-> NoDate, images |-> metadata.images])

\* saveCachedImagesMeta patching the stored object in place: the images are
\* replaced, the date is written only when the file holds none
savePatchesInPlace(mf, metadata, writeFails) ==
  IF writeFails THEN mf
  ELSE LET old == IF mf = Absent \/ ParseThrows(mf) THEN DefaultMeta ELSE Parse(mf)
           had == Get(old, "lastFetchDate")
       IN  Stringify([lastFetchDate |-> IF had = NoDate \/ had = Undefined
                                        THEN metadata.lastFetchDate
                                        ELSE had,
                      images        |-> metadata.images])

\* saveCachedImagesMeta: the file it leaves; a failing write() is caught
saveCachedImagesMeta(mf, metadata, writeFails) ==
  IF writeFails THEN mf ELSE Stringify(metadata)

\* the loop of cacheImages without the test of line 123: a record with an
\* empty url is handled like any other
RECURSIVE RunLoopNoSkip(_, _, _, _)
RunLoopNoSkip(images, i, cachedImages, fs) ==
  IF i > Len(images) THEN {[done |-> TRUE, i |-> i, cached |-> cachedImages]}
  ELSE LET image == images[i]
       IN  RunLoopNoSkip(images, i + 1,
                         Append(cachedImages, With(image, "localPath", image.url)), fs)
           \cup
           (IF image.id \in fs
            THEN RunLoopNoSkip(images, i + 1,
                               Append(cachedImages,
                                      With(image, "localPath", FileUri(image.id))), fs)
            ELSE {[done |-> FALSE, i |-> i, cached |-> cachedImages]})

\* the loop of cacheImages without the test of line 129: every record
\* with a url is downloaded
RECURSIVE RunLoopNoExistsTest(_, _, _, _)
RunLoopNoExistsTest(images, i, cachedImages, fs) ==
  IF i > Len(images) THEN {[done |-> TRUE, i |-> i, cached |-> cachedImages]}
  ELSE IF images[i].url = "" THEN RunLoopNoExistsTest(images, i + 1, cachedImages, fs)
  ELSE {[done |-> FALSE, i |-> i, cached |-> cachedImages]}

\* The synchronous stretch of the loop of cacheImages from position i on:
\* it runs until a download has to be awaited (done is FALSE, i is the
\* position of the record to download) or the input is exhausted.  fs is
\* the set of ids that have a local file.  The result is the set of ways
\* the stretch can end, reading localFile.exists being able to throw at
\* each record (the outer catch then pushes the record with its url).
RECURSIVE RunLoop(_, _, _, _)
RunLoop(images, i, cachedImages, fs) ==
  IF i > Len(images) THEN {[done |-> TRUE, i |-> i, cached |-> cachedImages]}
  ELSE LET image == images[i]
       IN  IF image.url = "" THEN RunLoop(images, i + 1, cachedImages, fs)
           ELSE RunLoop(images, i + 1,
                        Append(cachedImages, With(image, "localPath", image.url)), fs)
                \cup
                (IF image.id \in fs
                 THEN RunLoop(images, i + 1,
                              Append(cachedImages,
                                     With(image, "localPath", FileUri(image.id))), fs)
                 ELSE {[done |-> FALSE, i |-> i, cached |-> cachedImages]})

\* downloadFileAsync called without await: the loop goes on with the
\* download of position i still in flight
NoAwait(pending, i) == pending

\* the downloads in flight when the loop resumes after the await of line
\* 132 for position i
AwaitDownload(pending, i) == pending \ {i}

\* the catch of a failed download dropping the record
PushDropsFailed(cachedImages, image, ok) ==
  IF ok THEN Append(cachedImages, With(image, "localPath", FileUri(image.id)))
  ELSE cachedImages

\* the catch of a failed download pushing the record as it came
PushWithoutPath(cachedImages, image, ok) ==
  IF ok THEN Append(cachedImages, With(image, "localPath", FileUri(image.id)))
  ELSE Append(cachedImages, image)

\* cachedImages once the awaited download of image has settled: the local
\* file on success, the remote url when downloadFileAsync threw
PushAfterDownload(cachedImages, image, ok) ==
  IF ok THEN Append(cachedImages, With(image, "localPath", FileUri(image.id)))
  ELSE Append(cachedImages, With(image, "localPath", image.url))

\* ------------------------------------------------------- Cache Orchestrator
\* the test of line 170: metadata.lastFetchDate === today &&
\* metadata.images?.length > 0
\* the test of line 170 asking for more than one stored image
IsFreshMoreThanOne(metadata, today) ==
  metadata.lastFetchDate = today /\ Len(metadata.images) > 1

\* the test of line 170 without its second conjunct
IsFreshDateOnly(metadata, today) == metadata.lastFetchDate = today

IsFresh(metadata, today) ==
  metadata.lastFetchDate = today /\ Len(metadata.images) > 0

\* lines 183-188 with the return placed before the save
ReturnThenSave(log) == log \o <<"return", "write">>

\* lines 183-188: the awaited saveCachedImagesMeta, then the return
SaveThenReturn(log) == log \o <<"write", "return">>

\* the topic handed to the fetcher at line 177
SearchTopic(t, tz) == getTodayTopic(t, tz)

\* the fallback of line 193 returning nothing
FallbackEmpty(metadata) == <<>>

\* the fallback of line 193: metadata.images || []
Fallback(metadata) == metadata.images

VARIABLES
  now,          \* the clock, in hours since January 1 of BaseYear, 00:00 UTC
  ticks,        \* clock advances so far
  tzOffset,     \* the device's time zone, hours ahead of UTC
  dirExists,    \* the directory cached_images exists
  files,        \* ids whose file `${id}.jpg` exists in cached_images
  metaFile,     \* image_metadata.json: Absent or its stored content
  inv,          \* the invocations of getCuratedImages, one per slot
  calls,        \* invocations started so far
  everOverlap,  \* some invocation started while another was in flight
  lastRefresh,  \* what the latest invocation that refreshed returned and saved
  probe,        \* one function of the service applied to drawn inputs
  app           \* the state of the App component

vars == <<now, ticks, tzOffset, dirExists, files, metaFile, inv, calls,
          everOverlap, lastRefresh, probe, app>>

\* The App component before it is mounted: its useState values, and the
\* APOD requests in flight.  apod and error say whether the state holds a
\* picture and an error message; sets counts the calls of setCuratedImages.
AppIdle ==
  [mounted        |-> FALSE,
   loading        |-> TRUE,
   refreshing     |-> FALSE,
   loadingCurated |-> TRUE,
   apod           |-> FALSE,
   error          |-> FALSE,
   apodInFlight   |-> 0,
   curatedImages  |-> <<>>,
   sets           |-> 0]

\* App.fetchCuratedImages up to its await: setLoadingCurated(true)
BeforeCurated(a) == IF a.mounted THEN [a EXCEPT !.loadingCurated = TRUE] ELSE a

\* App.fetchCuratedImages after its await, for the invocation record r:
\* setCuratedImages(images) when getCuratedImages returned, the catch when
\* it rejected, setLoadingCurated(false) in both cases.  The continuation
\* runs as a microtask of the step that settles the invocation.
AfterCurated(a, r) ==
  IF ~a.mounted THEN a
  ELSE IF r.pc = "returned"
  THEN [a EXCEPT !.curatedImages = r.result, !.sets = @ + 1,
                 !.loadingCurated = FALSE]
  ELSE IF r.pc = "threw" THEN [a EXCEPT !.loadingCurated = FALSE]
  ELSE a

\* no function is being probed
NoProbe == [fn |-> "none"]

InFlight == {"fetching", "downloading"}

\* An invocation: its position (pc), its locals (today, metadata, images,
\* i, cached) and a record of what it did.
IdleInv ==
  [pc          |-> "idle",
   callNo      |-> 0,           \* which invocation this is, counted from 1
   today       |-> NoDate,      \* const today
   metadata    |-> DefaultMeta, \* const metadata
   images      |-> <<>>,        \* const images, the fetcher's result
   i           |-> 0,           \* position of the record being downloaded
   cached      |-> <<>>,        \* cachedImages of cacheImages
   result      |-> <<>>,        \* the value returned
   path        |-> "none",      \* "fresh" or "stale"
   pending     |-> {},          \* positions whose download is in flight
   settled     |-> {},          \* positions whose download completed or failed
   startMeta   |-> Absent,      \* the metadata file when the call started
   readFailed  |-> FALSE,       \* reading the metadata file threw
   topic       |-> "",          \* q of the search request
   searchAt    |-> 0,           \* the clock when the request was issued
   fetchKind   |-> "none",      \* how the search request ended
   nSearch     |-> 0,           \* search requests issued
   nDownload   |-> 0,           \* downloads started
   failed      |-> {},          \* positions whose download failed
   nSave       |-> 0,           \* calls of saveCachedImagesMeta
   saveOk      |-> FALSE,       \* the write of saveCachedImagesMeta succeeded
   metaChanged |-> FALSE,       \* a step changed what the metadata file reads as
   log         |-> <<>>]        \* the steps taken so far, in order

\* what getCachedImagesMeta makes of a metadata file that reads without error
Logical(mf) == getCachedImagesMeta(mf, FALSE)

Init ==
  /\ now = StartHour
  /\ ticks = 0
  /\ tzOffset \in TzOffsets
  /\ dirExists = FALSE
  /\ files = {}
  /\ metaFile = Absent
  /\ inv = [s \in Slots |-> IdleInv]
  /\ calls = 0
  /\ everOverlap = FALSE
  /\ lastRefresh = <<>>
  /\ probe = NoProbe
  /\ app = AppIdle

\* the faults that can show at a step: a fault is drawn only where the
\* operation it hits is performed
MayFail(cond) == IF cond THEN BOOLEAN ELSE {FALSE}

\* The first stretch of getCuratedImages, up to the return of the FRESH
\* path or the await of the search request: initImageCache, today, the
\* metadata read and the freshness test run without yielding to another
\* task.  The record of an invocation that has returned is dropped when
\* the next one starts.
Invoke(s, a) ==
  /\ calls < MaxCalls
  /\ inv[s].pc \notin InFlight
  /\ \A q \in Slots : q < s => inv[q].pc \in InFlight
  /\ \E createFails \in MayFail(~dirExists) :
     \E writeFails \in MayFail(metaFile = Absent /\ ~createFails) :
       LET st == initImageCache(dirExists, metaFile, createFails, writeFails)
       IN  \E readFails \in MayFail(st.meta # Absent) :
             LET today    == getTodayDateString(now)
                 metadata == getCachedImagesMeta(st.meta, readFails)
                 base     == [IdleInv EXCEPT
                                !.callNo = calls + 1,
                                !.today = today, !.metadata = metadata,
                                !.startMeta = metaFile,
                                !.readFailed = readFails,
                                !.log = <<"read">>,
                                !.metaChanged = (Logical(st.meta) # Logical(metaFile))]
                 started  == IF IsFresh(metadata, today)
                             THEN [base EXCEPT !.pc = "returned", !.path = "fresh",
                                               !.result = metadata.images,
                                               !.log = Append(@, "return")]
                             ELSE [base EXCEPT !.pc = "fetching", !.path = "stale",
                                               !.topic = SearchTopic(now, tzOffset),
                                               !.searchAt = now, !.nSearch = 1,
                                               !.log = Append(@, "search")]
             IN  /\ dirExists' = st.dir
                 /\ metaFile' = st.meta
                 /\ inv' = [q \in Slots |->
                             IF q = s THEN started
                             ELSE IF inv[q].pc \in InFlight THEN inv[q] ELSE IdleInv]
                 /\ app' = AfterCurated(BeforeCurated(a), started)
  /\ calls' = calls + 1
  /\ everOverlap' = (everOverlap \/ \E q \in Slots : inv[q].pc \in InFlight)
  /\ UNCHANGED <<now, ticks, tzOffset, files, lastRefresh, probe>>

\* getCuratedImages() called with the App as it is
Call(s) == Invoke(s, app)

\* the topic of the search whose records the metadata file holds, "" when
\* no invocation has saved any
StoredTopic == IF lastRefresh = <<>> THEN "" ELSE lastRefresh[1].stored

\* The rest of cacheImages and of getCuratedImages once the loop has run
\* as far as lp says: either a download is awaited, or cacheImages returns,
\* the metadata is saved and getCuratedImages returns.
Continue(s, r, lp) ==
  IF lp.done
  THEN \E writeFails \in BOOLEAN :
         LET mf == saveCachedImagesMeta(metaFile,
                     [lastFetchDate |-> r.today, images |-> lp.cached], writeFails)
         IN  /\ metaFile' = mf
             /\ inv' = [inv EXCEPT ![s] =
                   [r EXCEPT !.pc = "returned", !.cached = lp.cached,
                             !.result = lp.cached,
                             !.nSave = r.nSave + 1, !.saveOk = ~writeFails,
                             !.log = SaveThenReturn(r.log),
                             !.metaChanged = (r.metaChanged
                                                \/ Logical(mf) # Logical(metaFile))]]
             /\ lastRefresh' = <<[callNo |-> r.callNo, today |-> r.today,
                                  result |-> lp.cached, saved |-> ~writeFails,
                                  stored |-> IF ~writeFails THEN r.topic
                                             ELSE StoredTopic]>>
  ELSE /\ inv' = [inv EXCEPT ![s] =
             [r EXCEPT !.pc = "downloading", !.i = lp.i, !.cached = lp.cached,
                       !.nDownload = r.nDownload + 1,
                       !.log = Append(r.log, "download"),
                       !.pending = r.pending \cup {lp.i}]]
       /\ UNCHANGED <<metaFile, lastRefresh>>

\* The search request of invocation s settles: the fetcher's result, then
\* either the fallback return, or cacheImages up to its first download.
\* imageDir.create() of cacheImages stands outside every try block: when
\* it throws, cacheImages and getCuratedImages reject.
FetchDone(s) ==
  /\ inv[s].pc = "fetching"
  /\ \E f \in SettledFetches :
       LET r == [inv[s] EXCEPT !.fetchKind = f.kind, !.images = f.res.value,
                               !.log = Append(@, "searched")]
       IN  IF f.res.threw
           THEN /\ inv' = [inv EXCEPT ![s] = [r EXCEPT !.pc = "threw", !.log = Append(@, "throw")]]
                /\ UNCHANGED <<dirExists, files, metaFile, lastRefresh>>
           ELSE IF Len(f.res.value) = 0
           THEN /\ inv' = [inv EXCEPT ![s] =
                      [r EXCEPT !.pc = "returned", !.result = Fallback(r.metadata),
                                !.log = Append(@, "return")]]
                /\ UNCHANGED <<dirExists, files, metaFile, lastRefresh>>
           ELSE \E createFails \in MayFail(~dirExists) :
                  IF createFails
                  THEN /\ inv' = [inv EXCEPT ![s] = [r EXCEPT !.pc = "threw", !.log = Append(@, "throw")]]
                       /\ UNCHANGED <<dirExists, files, metaFile, lastRefresh>>
                  ELSE /\ dirExists' = TRUE
                       /\ UNCHANGED files
                       /\ \E lp \in RunLoop(f.res.value, 1, <<>>, files) :
                             Continue(s, r, lp)
  /\ app' = AfterCurated(app, inv'[s])
  /\ UNCHANGED <<now, ticks, tzOffset, calls, everOverlap, probe>>

\* The download awaited by invocation s settles, and the loop goes on.
DownloadDone(s) ==
  /\ inv[s].pc = "downloading"
  /\ \E ok \in BOOLEAN :
       LET r0     == inv[s]
           image  == r0.images[r0.i]
           fs     == IF ok THEN files \cup {image.id} ELSE files
           r      == [r0 EXCEPT !.failed = IF ok THEN r0.failed
                                           ELSE r0.failed \cup {r0.i},
                                !.pending = AwaitDownload(r0.pending, r0.i),
                                !.log = Append(@, "settled"),
                                !.settled = r0.settled \cup {r0.i}]
           pushed == PushAfterDownload(r0.cached, image, ok)
       IN  /\ files' = fs
           /\ \E lp \in RunLoop(r0.images, r0.i + 1, pushed, fs) : Continue(s, r, lp)
  /\ app' = AfterCurated(app, inv'[s])
  /\ UNCHANGED <<now, ticks, tzOffset, dirExists, calls, everOverlap, probe>>

\* time passes
Tick ==
  /\ ticks < MaxTicks
  /\ now' = now + StepHours
  /\ ticks' = ticks + 1
  /\ UNCHANGED <<tzOffset, dirExists, files, metaFile, inv, calls, everOverlap,
                 lastRefresh, probe, app>>

\* A caller that serialises its calls, as the design assumes: an
\* invocation starts only when none is in flight.
Start(s) ==
  /\ \A q \in Slots : inv[q].pc \notin InFlight
  /\ Call(s)

Next ==
  \/ \E s \in Slots : Start(s)
  \/ \E s \in Slots : FetchDone(s)
  \/ \E s \in Slots : DownloadDone(s)
  \/ Tick

Spec == Init /\ [][Next]_vars

\* The serialised caller when every search request and every download
\* eventually completes, with success or failure.
Completing ==
  \A s \in Slots : WF_vars(FetchDone(s)) /\ WF_vars(DownloadDone(s))

SpecLive == Init /\ [][Next]_vars /\ Completing

\* A caller that does not serialise its calls.
NextOverlap ==
  \/ \E s \in Slots : Call(s)
  \/ \E s \in Slots : FetchDone(s)
  \/ \E s \in Slots : DownloadDone(s)
  \/ Tick

SpecOverlap == Init /\ [][NextOverlap]_vars

\* The same caller on a device in UTC around one midnight: the clock
\* starts at noon and advances once, so that invocations in flight
\* together can hold different dates.
InitRace ==
  /\ now = StartHour + StepHours
  /\ ticks = 0
  /\ tzOffset = 0
  /\ dirExists = FALSE
  /\ files = {}
  /\ metaFile = Absent
  /\ inv = [s \in Slots |-> IdleInv]
  /\ calls = 0
  /\ everOverlap = FALSE
  /\ lastRefresh = <<>>
  /\ probe = NoProbe
  /\ app = AppIdle

\* as many invocations as can be in flight together are started
CallRace(s) == calls < Cardinality(Slots) /\ Call(s)

TickRace == ticks < MaxRaceTicks /\ Tick

NextRace ==
  \/ \E s \in Slots : CallRace(s)
  \/ \E s \in Slots : FetchDone(s)
  \/ \E s \in Slots : DownloadDone(s)
  \/ TickRace

SpecRace == InitRace /\ [][NextRace]_vars

\* ------------------------------------------------------------- the App
\* The App component (part_001, lines 278-332) as the caller, on a device
\* in UTC.  As many invocations are started as can be in flight together.
InitApp ==
  /\ now = StartHour
  /\ ticks = 0
  /\ tzOffset = 0
  /\ dirExists = FALSE
  /\ files = {}
  /\ metaFile = Absent
  /\ inv = [s \in Slots |-> IdleInv]
  /\ calls = 0
  /\ everOverlap = FALSE
  /\ lastRefresh = <<>>
  /\ probe = NoProbe
  /\ app = AppIdle

\* fetchAPOD up to its await: setError(null) and the request
StartApod(a) == [a EXCEPT !.error = FALSE, !.apodInFlight = @ + 1]

\* the scroll view with its RefreshControl is rendered: neither the
\* loading screen nor the error screen is shown
ScrollViewShown(a) == a.mounted /\ ~a.loading /\ ~(a.error /\ ~a.apod)

\* useEffect on mount: loadData() calls fetchAPOD() and fetchCuratedImages()
Mount(s) ==
  /\ ~app.mounted
  /\ Invoke(s, StartApod([app EXCEPT !.mounted = TRUE]))

\* onRefresh: setRefreshing(true), fetchAPOD(), fetchCuratedImages().  The
\* RefreshControl calls it on a pull while its refreshing prop is false.
Pull(s) ==
  /\ ScrollViewShown(app)
  /\ ~app.refreshing
  /\ calls < Cardinality(Slots)
  /\ Invoke(s, StartApod([app EXCEPT !.refreshing = TRUE]))

\* the Try Again button of the error screen: fetchAPOD()
Retry ==
  /\ app.mounted /\ ~app.loading /\ app.error /\ ~app.apod
  /\ app' = StartApod(app)
  /\ UNCHANGED <<now, ticks, tzOffset, dirExists, files, metaFile, inv, calls,
                 everOverlap, lastRefresh, probe>>

\* an APOD request settles: setApod(data) or setError(message), then the
\* finally block: setLoading(false) and setRefreshing(false)
ApodDone ==
  /\ app.apodInFlight > 0
  /\ \E ok \in BOOLEAN :
       app' = [app EXCEPT !.apodInFlight = @ - 1,
                          !.apod = (@ \/ ok),
                          !.error = (@ \/ ~ok),
                          !.loading = FALSE,
                          !.refreshing = FALSE]
  /\ UNCHANGED <<now, ticks, tzOffset, dirExists, files, metaFile, inv, calls,
                 everOverlap, lastRefresh, probe>>

NextApp ==
  \/ \E s \in Slots : Mount(s)
  \/ \E s \in Slots : Pull(s)
  \/ Retry
  \/ ApodDone
  \/ \E s \in Slots : FetchDone(s)
  \/ \E s \in Slots : DownloadDone(s)

SpecApp == InitApp /\ [][NextApp]_vars

\* ------------------------------------------- the functions on their own
\* the state of the store and of the invocations while a function is probed
Parked ==
  /\ now = StartHour
  /\ ticks = 0
  /\ tzOffset = 0
  /\ dirExists = FALSE
  /\ files = {}
  /\ metaFile = Absent
  /\ inv = [s \in Slots |-> IdleInv]
  /\ calls = 0
  /\ everOverlap = FALSE
  /\ lastRefresh = <<>>
  /\ app = AppIdle

StayParked ==
  UNCHANGED <<now, ticks, tzOffset, dirExists, files, metaFile, inv, calls,
              everOverlap, lastRefresh, app>>

\* fetchNASALibraryImages(topic, count) on a successful response: the items
\* of the response are any catalogue items, repeated or not
InitFetch ==
  /\ Parked
  /\ probe \in {[fn |-> "fetch", items |-> r, count |-> c, done |-> FALSE,
                  out |-> [threw |-> FALSE, value |-> <<>>]] :
                   r \in ItemLists(MaxProbeItems), c \in 0..MaxCount}

ApplyFetch ==
  /\ probe.fn = "fetch"
  /\ ~probe.done
  /\ LET out == [kind |-> "ok", items |-> probe.items]
     IN  \E p \in Orders(out) :
           probe' = [probe EXCEPT !.done = TRUE,
                                  !.out = fetchNASALibraryImages(out, p, probe.count)]
  /\ StayParked

NextFetch == ApplyFetch

SpecFetch == InitFetch /\ [][NextFetch]_vars

\* getTodayTopic() at an instant (at), at a later instant of the probe
\* (then) and 24, 48, ... hours after the first
ProbeHours == {0, 12, 23}
ProbeGaps  == {1, 12, 23}

InitTopic ==
  /\ Parked
  /\ probe \in {[fn |-> "topic", zone |-> z, at |-> HoursPerDay * d + h,
                  then |-> HoursPerDay * d + h + g, done |-> FALSE,
                  first |-> "", second |-> "", later |-> <<>>] :
                   z \in Zones, d \in 0..MaxProbeDay, h \in ProbeHours,
                   g \in ProbeGaps}

ApplyTopic ==
  /\ probe.fn = "topic"
  /\ ~probe.done
  /\ probe' = [probe EXCEPT
                 !.done = TRUE,
                 !.first = getTodayTopicIn(probe.at, probe.zone),
                 !.second = getTodayTopicIn(probe.then, probe.zone),
                 !.later = [k \in 1..Len(TOPICS) |->
                              getTodayTopicIn(probe.at + HoursPerDay * k, probe.zone)]]
  /\ StayParked

NextTopic == ApplyTopic

SpecTopic == InitTopic /\ [][NextTopic]_vars

\* The Local Store on its own: initImageCache, saveCachedImagesMeta and
\* getCachedImagesMeta called in any order on a store in any condition a
\* device can hold, each call with or without a failing file operation.
\* The foreign contents are null (a value without properties, named by its
\* text) and objects lacking lastFetchDate, images or both.
\* hist records every call: the store before and after it, the metadata
\* handed in, the value returned and whether an exception was caught.
ProbeMetas ==
  <<DefaultMeta,
   [lastFetchDate |-> "2026-12-30",
    images |-> <<With(ToRecord(ItemA), "localPath", FileUri("a"))>>],
   [lastFetchDate |-> NoDate,
    images |-> <<ToRecord(ItemB), With(ToRecord(ItemC), "localPath", FileUri("c"))>>]>>

Foreign(v) == [kind |-> "value", value |-> v]

ProbeContents ==
  <<Absent, TextContent,
    Foreign([json |-> "null"]), Foreign([version |-> "1"]),
    Foreign([images |-> <<>>]), Foreign([lastFetchDate |-> "2026-12-30"])>>
  \o [k \in DOMAIN ProbeMetas |-> Stringify(ProbeMetas[k])]

StoreCall(op, arg, out, caught, after) ==
  [op |-> op, arg |-> arg, out |-> out, caught |-> caught,
   dir0 |-> probe.dir, meta0 |-> probe.meta,
   dir1 |-> after.dir, meta1 |-> after.meta]

InitStore ==
  /\ Parked
  /\ \E d \in BOOLEAN, k \in DOMAIN ProbeContents :
       probe = [fn |-> "store", dir |-> d, meta |-> ProbeContents[k], hist |-> <<>>]

StoreStep(call) ==
  probe' = [probe EXCEPT !.dir = call.dir1, !.meta = call.meta1,
                         !.hist = Append(@, call)]

ApplyInit ==
  /\ probe.fn = "store" /\ Len(probe.hist) < MaxStoreCalls
  /\ \E createFails \in MayFail(~probe.dir) :
     \E writeFails \in MayFail(probe.meta = Absent /\ ~createFails) :
       StoreStep(StoreCall("init", DefaultMeta, DefaultMeta,
                           createFails \/ writeFails,
                           initImageCache(probe.dir, probe.meta,
                                          createFails, writeFails)))
  /\ StayParked

ApplySave ==
  /\ probe.fn = "store" /\ Len(probe.hist) < MaxStoreCalls
  /\ \E k \in DOMAIN ProbeMetas, writeFails \in BOOLEAN :
       LET m == ProbeMetas[k]
       IN  StoreStep(StoreCall("save", m, DefaultMeta, writeFails,
                               [dir  |-> probe.dir,
                                meta |-> saveCachedImagesMeta(probe.meta, m, writeFails)]))
  /\ StayParked

ApplyRead ==
  /\ probe.fn = "store" /\ Len(probe.hist) < MaxStoreCalls
  /\ \E readFails \in MayFail(probe.meta # Absent) :
       StoreStep(StoreCall("read", DefaultMeta,
                           getCachedImagesMeta(probe.meta, readFails),
                           readFails \/ (probe.meta # Absent /\ ParseThrows(probe.meta)),
                           [dir |-> probe.dir, meta |-> probe.meta]))
  /\ StayParked

NextStore == ApplyInit \/ ApplySave \/ ApplyRead

SpecStore == InitStore /\ [][NextStore]_vars

\* ------------------------------------------------------------- properties
Started == {s \in Slots : inv[s].pc # "idle"}

\* the metadata that was persisted when invocation s started
Persisted(s) == Logical(inv[s].startMeta)

\* the metadata persisted when invocation s started carries the date s
\* computed and at least one image
PersistedFresh(s) ==
  /\ Persisted(s).lastFetchDate = inv[s].today
  /\ Len(Persisted(s).images) >= 1

\* invocation s took the FRESH path: it returned the images it read
\* without a request, a download or a write
TookFresh(s) ==
  /\ inv[s].pc = "returned"
  /\ inv[s].path = "fresh"
  /\ inv[s].nSearch = 0
  /\ inv[s].nDownload = 0
  /\ inv[s].nSave = 0
  /\ ~inv[s].metaChanged

\* C1 as stated: whenever the persisted metadata carries today's date and
\* a non-empty images sequence, the invocation issues no search request and
\* no download and returns exactly the persisted images.
C1_FreshAsStated ==
  \A s \in Started :
    PersistedFresh(s)
      => TookFresh(s) /\ inv[s].result = Persisted(s).images

\* C1 amended: whenever the persisted metadata carries today's date and a
\* non-empty images sequence, and reading the metadata file does not fail,
\* the invocation issues no search request and no download and returns
\* exactly the persisted images.
C1_Fresh ==
  \A s \in Started :
    PersistedFresh(s) /\ ~inv[s].readFailed
      => TookFresh(s) /\ inv[s].result = Persisted(s).images

C1_Witness ==
  \E s \in Started :
    /\ PersistedFresh(s)
    /\ ~inv[s].readFailed
    /\ inv[s].pc = "returned"
    /\ Len(inv[s].result) = 2

\* invocation s returns in this step from the refresh branch (line 189)
ReturnsRefreshed(s) ==
  /\ inv[s].pc \in InFlight
  /\ inv'[s].pc = "returned"
  /\ inv'[s].path = "stale"
  /\ Len(inv'[s].images) > 0

\* the content of the metadata file that holds today's date of invocation
\* record r and the sequence it returned
OwnMetadata(r) == Stringify([lastFetchDate |-> r.today, images |-> r.result])

\* C2 as stated: when a STALE invocation whose fetch returned at least one
\* record returns, it returns the sequence cacheImages produced and the
\* metadata file holds exactly its date and that sequence.
C2_RefreshAsStated ==
  [][\A s \in Slots :
       ReturnsRefreshed(s)
         => /\ inv'[s].result = inv'[s].cached
            /\ inv'[s].topic = getTodayTopic(inv'[s].searchAt, tzOffset)
            /\ metaFile' = OwnMetadata(inv'[s])]_vars

\* C2 amended: when a STALE invocation whose fetch (for today's topic)
\* returned at least one record returns, it returns the sequence cacheImages
\* produced, and if the write of the metadata file succeeded the file holds
\* exactly its date and that sequence; if the write failed the file is as
\* it was.
C2_Refresh ==
  [][\A s \in Slots :
       ReturnsRefreshed(s)
         => /\ inv'[s].result = inv'[s].cached
            /\ inv'[s].topic = getTodayTopic(inv'[s].searchAt, tzOffset)
            /\ inv'[s].nSave = 1
            /\ inv'[s].saveOk => metaFile' = OwnMetadata(inv'[s])
            /\ ~inv'[s].saveOk => metaFile' = metaFile]_vars

C2_Witness ==
  \E s \in Started :
    /\ inv[s].pc = "returned"
    /\ inv[s].path = "stale"
    /\ Len(inv[s].images) = 2
    /\ Len(inv[s].result) = 2
    /\ inv[s].saveOk
    /\ metaFile = OwnMetadata(inv[s])

\* invocation s has returned after its fetch gave zero records
ReturnedEmptyFetch(s) ==
  /\ inv[s].pc = "returned"
  /\ inv[s].path = "stale"
  /\ Len(inv[s].images) = 0

\* C3 as stated: whenever the fetcher returns zero records, the invocation
\* returns the previously persisted images and leaves the metadata untouched.
C3_EmptyFetchAsStated ==
  \A s \in Started :
    ReturnedEmptyFetch(s)
      => /\ inv[s].result = Persisted(s).images
         /\ inv[s].nSave = 0
         /\ ~inv[s].metaChanged

\* C3 amended: whenever the fetcher returns zero records, the invocation
\* returns the images of the metadata it read, which are the previously
\* persisted images unless reading the metadata file failed (then it
\* returns the empty sequence), and leaves the metadata untouched: it never
\* saves, an existing metadata file keeps its content, and an absent one is
\* at most created with the default content.
C3_EmptyFetch ==
  \A s \in Started :
    ReturnedEmptyFetch(s)
      => /\ inv[s].result = inv[s].metadata.images
         /\ ~inv[s].readFailed => inv[s].result = Persisted(s).images
         /\ inv[s].readFailed => inv[s].result = <<>>
         /\ inv[s].nSave = 0
         /\ ~inv[s].metaChanged
         /\ inv[s].startMeta # Absent => metaFile = inv[s].startMeta
         /\ inv[s].startMeta = Absent => metaFile \in {Absent, Stringify(DefaultMeta)}

C3_Witness ==
  \E s \in Started :
    /\ ReturnedEmptyFetch(s)
    /\ inv[s].fetchKind = "status"
    /\ ~inv[s].readFailed
    /\ Len(inv[s].result) > 0
    /\ inv[s].result = Persisted(s).images

\* a refresh returned before invocation s started, on the date s computed:
\* its record
HasEarlierRefresh(s) ==
  /\ lastRefresh # <<>>
  /\ lastRefresh[1].callNo < inv[s].callNo
  /\ lastRefresh[1].today = inv[s].today
  /\ ~everOverlap

\* what reading back a stored images sequence gives
ReadBack(images) == Parse(Stringify([lastFetchDate |-> NoDate, images |-> images])).images

C5_NoHardFailure == \A s \in Slots : inv[s].pc # "threw"

\* C6: whenever the persisted lastFetchDate differs from today's date or
\* the persisted images are empty, the invocation takes the STALE path and
\* issues exactly one search request, for today's topic.
C6_StaleTrigger ==
  \A s \in Started :
    ~PersistedFresh(s)
      => /\ inv[s].path = "stale"
         /\ inv[s].nSearch = 1
         /\ inv[s].topic = getTodayTopic(inv[s].searchAt, tzOffset)
         /\ inv[s].topic \in {TOPICS[k] : k \in 1..Len(TOPICS)}

\* the date rolled over since the stored fetch, and the request went out
C6_Witness ==
  \E s \in Started :
    /\ inv[s].startMeta # Absent
    /\ Persisted(s).lastFetchDate # NoDate
    /\ Persisted(s).lastFetchDate # inv[s].today
    /\ Len(Persisted(s).images) > 0
    /\ inv[s].path = "stale"
    /\ inv[s].nSearch = 1
    /\ inv[s].pc = "returned"

\* a record whose localPath is its local file or its own remote url
HasLocalPath(rec) ==
  /\ "localPath" \in DOMAIN rec
  /\ rec.localPath # ""
  /\ rec.localPath # Undefined
  /\ rec.localPath \in {FileUri(rec.id), rec.url}

AllHaveLocalPath(recs) == \A k \in 1..Len(recs) : HasLocalPath(recs[k])

\* C7: every record of the persisted images, every record emitted by
\* cacheImages and every record returned by getCuratedImages has a
\* non-empty localPath that is its local file URI or its own remote url.
C7_LocalPath ==
  /\ AllHaveLocalPath(Logical(metaFile).images)
  /\ \A s \in Slots : /\ AllHaveLocalPath(inv[s].cached)
                       /\ AllHaveLocalPath(inv[s].result)
                       /\ AllHaveLocalPath(inv[s].metadata.images)

C7_Witness ==
  \E s \in Started :
    /\ inv[s].pc = "returned"
    /\ Len(inv[s].result) = 2
    /\ inv[s].result[1].localPath = inv[s].result[1].url
    /\ inv[s].result[2].localPath = FileUri(inv[s].result[2].id)
    /\ Logical(metaFile).images = ReadBack(inv[s].result)

\* the positions of images whose url is not empty, up to position k
WithUrl(images, k) == {j \in 1..k : images[j].url # ""}

\* where the record at position k of images stands in the output
OutPos(images, k) == Cardinality(WithUrl(images, k))

WithoutLocalPath(rec) == [k \in (DOMAIN rec) \ {"localPath"} |-> rec[k]]

HasUrl(rec) == rec.url # ""

\* C9: the output of cacheImages is the subsequence of the input records
\* whose url is not empty, in input order, each with its input properties
\* and localPath.
C9_OutputShape ==
  \A s \in Started :
    (inv[s].pc = "returned" /\ Len(inv[s].images) > 0)
      => /\ Len(inv[s].cached) <= Len(inv[s].images)
         /\ [k \in 1..Len(inv[s].cached) |-> WithoutLocalPath(inv[s].cached[k])]
              = SelectSeq(inv[s].images, HasUrl)
         /\ \A k \in 1..Len(inv[s].cached) :
              /\ "localPath" \in DOMAIN inv[s].cached[k]
              /\ inv[s].cached[k].url # ""

\* an input of two records, the first with an empty url, gives one record
C9_Witness ==
  \E s \in Started :
    /\ inv[s].pc = "returned"
    /\ Len(inv[s].images) = 2
    /\ inv[s].images[1].url = ""
    /\ Len(inv[s].cached) = 1
    /\ inv[s].cached[1].id = inv[s].images[2].id

FetchFailures == {"transport", "status", "body"}

\* C10: whenever the search request fails in transport, has a non-success
\* status or its body cannot be processed, fetchNASALibraryImages resolves
\* to the empty sequence and does not reject.
C10_FetchAbsorbed ==
  \A s \in Started :
    inv[s].fetchKind \in FetchFailures
      => /\ inv[s].pc = "returned"
         /\ inv[s].images = <<>>

C10_Witness ==
  \E s \in Started :
    /\ inv[s].fetchKind = "body"
    /\ inv[s].pc = "returned"
    /\ inv[s].images = <<>>

\* the item passes the filter: its first data entry is an image with a
\* description longer than 50 characters
PassesFilter(item) ==
  /\ Len(item.data) >= 1
  /\ item.data[1].media_type = "image"
  /\ Length(item.data[1].description) >= 51

TopicSet == {TOPICS[k] : k \in 1..Len(TOPICS)}

\* C12: getTodayTopic returns TOPICS[dayOfYear mod 6] where dayOfYear is the
\* 1-indexed day of the year the local calendar shows; the result is a
\* member of TOPICS; a list of length 2 and day 3 give index 1.
C12_TopicFormula ==
  /\ TopicIndex(3, 2) = 1
  /\ (probe.fn = "topic" /\ probe.done)
       => /\ probe.first \in TopicSet
          /\ probe.first = TOPICS[((LocalDate(probe.at, probe.zone)[2] + 1) % 6) + 1]

\* C13: two instants of the same local calendar day give the same topic.
C13_SameDaySameTopic ==
  (/\ probe.fn = "topic"
   /\ probe.done
   /\ LocalDate(probe.at, probe.zone) = LocalDate(probe.then, probe.zone))
    => probe.first = probe.second

\* the topics at the instant probed and 24, ..., 120 hours later
SixDays == <<probe.first>> \o SubSeq(probe.later, 1, 5)

\* C14 as stated: the topic 6 days later is the same, and 6 consecutive
\* days have 6 different topics, also across a year boundary.
C14_PeriodAsStated ==
  (probe.fn = "topic" /\ probe.done)
    => /\ probe.later[6] = probe.first
       /\ \A i, j \in 1..6 : i # j => SixDays[i] # SixDays[j]

\* the instants probed up to k days after the first fall in one local year
SameYear(k) ==
  LocalDate(probe.at + HoursPerDay * k, probe.zone)[1] = LocalDate(probe.at, probe.zone)[1]

\* C14 amended: within one calendar year the daily topic cycles with period
\* 6: the topic 6 times 24 hours after an instant is the topic at that
\* instant when both fall in the same local year, and the topics at 6
\* instants 24 hours apart in one local year are pairwise different.
C14_Period ==
  (probe.fn = "topic" /\ probe.done)
    => /\ SameYear(6) => probe.later[6] = probe.first
       /\ SameYear(5) => \A i, j \in 1..6 : i # j => SixDays[i] # SixDays[j]

\* six days within a year over which the clocks move
C14_Witness ==
  /\ probe.fn = "topic"
  /\ probe.done
  /\ SameYear(6)
  /\ DstAhead(probe.at, probe.zone) # DstAhead(probe.at + HoursPerDay * 6, probe.zone)
  /\ probe.later[6] = probe.first

\* ---------------------------------------------------------- C15 (read)
StoreCalls == IF probe.fn = "store" THEN probe.hist ELSE <<>>

Reads == {i \in DOMAIN StoreCalls : StoreCalls[i].op = "read"}

\* the content is a metadata object: it has lastFetchDate and images
HoldsMetadata(c) ==
  c.kind = "json" \/ (c.kind = "value" /\ {"lastFetchDate", "images"} \subseteq DOMAIN c.value)

\* C15: getCachedImagesMeta returns the default whenever the metadata
\* file is absent, unreadable or does not hold a metadata object, and
\* what it returns always has a lastFetchDate and an images sequence.
\* (It returns a value in every case: the model's read has no throwing
\* outcome because every statement of the function is inside its try.)
C15_ReadDegradation ==
  \A i \in Reads :
    LET call == StoreCalls[i]
    IN  /\ (call.meta0 = Absent \/ call.caught \/ ~HoldsMetadata(call.meta0))
             => call.out = DefaultMeta
        /\ {"lastFetchDate", "images"} \subseteq DOMAIN call.out

\* ----------------------------------------------------- C16 (round trip)
\* the reads that directly follow a save
ReadsAfterSave ==
  {i \in Reads : i > 1 /\ StoreCalls[i - 1].op = "save"}

Keys(a, b) == DOMAIN a \cup DOMAIN b

\* a and b are equal field for field: every property read from one has
\* the value it has when read from the other
SameFields(a, b) ==
  /\ Get(a, "lastFetchDate") = Get(b, "lastFetchDate")
  /\ "images" \in DOMAIN a /\ "images" \in DOMAIN b
  /\ Len(a.images) = Len(b.images)
  /\ \A k \in 1..Len(a.images) :
       \A key \in Keys(a.images[k], b.images[k]) :
         Get(a.images[k], key) = Get(b.images[k], key)

\* C16 as stated: whatever metadata is saved, the read that follows
\* returns a value equal to it field for field.
C16_RoundTripAsStated ==
  \A i \in ReadsAfterSave : SameFields(StoreCalls[i].out, StoreCalls[i - 1].arg)

\* C16: when neither the write of the save nor the read that follows
\* throws, the read returns a value equal field for field to the
\* metadata saved.
C16_RoundTrip ==
  \A i \in ReadsAfterSave :
    (~StoreCalls[i - 1].caught /\ ~StoreCalls[i].caught)
      => SameFields(StoreCalls[i].out, StoreCalls[i - 1].arg)

\* a record with a property holding undefined was saved over another
\* content and read back without that property
C16_Witness ==
  \E i \in ReadsAfterSave :
    LET saved == StoreCalls[i - 1]
        read  == StoreCalls[i]
    IN  /\ ~saved.caught /\ ~read.caught
        /\ saved.meta0 # saved.meta1
        /\ \E k \in 1..Len(saved.arg.images) :
             \E key \in DOMAIN saved.arg.images[k] :
               /\ saved.arg.images[k][key] = Undefined
               /\ key \notin DOMAIN read.out.images[k]

\* ---------------------------------------------------------- C17 (init)
Inits == {i \in DOMAIN StoreCalls : StoreCalls[i].op = "init"}

\* the calls of initImageCache that directly follow another one
RepeatedInits == {i \in Inits : i > 1 /\ StoreCalls[i - 1].op = "init"}

DefaultContent == [kind |-> "json", lastFetchDate |-> NoDate, images |-> <<>>]

\* what one call of initImageCache may do to the store: create the
\* directory, create the default metadata file, and nothing else
OnlyCreates(call) ==
  /\ call.dir0 => call.dir1
  /\ call.meta0 # Absent => call.meta1 = call.meta0
  /\ call.meta1 # call.meta0 => call.meta1 = DefaultContent

\* C17 as stated: initImageCache creates the directory and the default
\* metadata file only when absent, leaves an existing metadata file as it
\* is, and a call that follows another call leaves the store as the
\* earlier call left it (so n calls in a row leave what one call leaves).
C17_InitIdempotentAsStated ==
  /\ \A i \in Inits : OnlyCreates(StoreCalls[i])
  /\ \A i \in RepeatedInits :
       /\ StoreCalls[i].dir1 = StoreCalls[i - 1].dir1
       /\ StoreCalls[i].meta1 = StoreCalls[i - 1].meta1

\* C17: initImageCache creates the directory and the default metadata
\* file only when absent and leaves an existing metadata file as it is;
\* a call in which no file operation throws leaves both in place, and a
\* call that follows such a call leaves the store as it found it.
C17_InitIdempotent ==
  /\ \A i \in Inits :
       /\ OnlyCreates(StoreCalls[i])
       /\ ~StoreCalls[i].caught
            => StoreCalls[i].dir1 /\ StoreCalls[i].meta1 # Absent
  /\ \A i \in RepeatedInits :
       ~StoreCalls[i - 1].caught
         => /\ StoreCalls[i].dir1 = StoreCalls[i - 1].dir1
            /\ StoreCalls[i].meta1 = StoreCalls[i - 1].meta1

\* initImageCache created the directory and the default file of an empty
\* store, and was called twice more after that
C17_Witness ==
  /\ Len(StoreCalls) = 3
  /\ Inits = {1, 2, 3}
  /\ ~StoreCalls[1].dir0 /\ StoreCalls[1].meta0 = Absent
  /\ ~StoreCalls[1].caught
  /\ StoreCalls[3].dir1 /\ StoreCalls[3].meta1 = DefaultContent

\* ------------------------------------------------- C18 (selection size)
Returned == {s \in Started : inv[s].pc = "returned"}

\* C18: the persisted images sequence has at most 2 records, and so has
\* every sequence getCuratedImages returns; the selection it hands to
\* cacheImages already has at most 2.
C18_SelectionSize ==
  /\ Len(Logical(metaFile).images) <= 2
  /\ \A s \in Returned : Len(inv[s].result) <= 2
  /\ \A s \in Started : Len(inv[s].images) <= 2

\* a refresh returned and persisted two records
C18_Witness ==
  \E s \in Returned :
    /\ inv[s].path = "stale"
    /\ inv[s].nSave = 1 /\ inv[s].saveOk
    /\ Len(inv[s].result) = 2
    /\ Len(Logical(metaFile).images) = 2

\* ---------------------------------------------- C20 (sequential downloads)
\* C20: within one cacheImages call at most one download is in flight,
\* and a download in flight is for a later position than every download
\* that has completed or failed: the download for a position starts only
\* after the downloads for the positions before it have settled.
C20_Sequential ==
  \A s \in Started :
    /\ Cardinality(inv[s].pending) <= 1
    /\ inv[s].pc = "downloading" => inv[s].pending = {inv[s].i}
    /\ inv[s].pc # "downloading" => inv[s].pending = {}
    /\ \A j \in inv[s].pending : \A k \in inv[s].settled : k < j
    /\ Cardinality(inv[s].pending \cup inv[s].settled) = inv[s].nDownload

\* the second download of a call is in flight after the first one failed
C20_Witness ==
  \E s \in Started :
    /\ inv[s].pc = "downloading"
    /\ inv[s].pending = {2}
    /\ inv[s].settled = {1}
    /\ inv[s].failed = {1}

\* ------------------------------------------ C19 (wholesale replacement)
\* the invocations that return at this step
Returning == {s \in Slots : inv[s].pc # "returned" /\ inv'[s].pc = "returned"}

\* C19: also when invocations overlap, every change of the metadata file
\* either creates it with the default content or replaces it whole by the
\* date and the sequence of the one invocation that returns at that step;
\* so what is persisted is always the default or the pair of one write.
C19_Wholesale ==
  [][metaFile' # metaFile
       => \/ metaFile = Absent /\ metaFile' = DefaultContent
          \/ \E s \in Returning :
               /\ metaFile' = OwnMetadata(inv'[s])
               /\ Returning = {s}]_vars

\* two invocations that overlapped hold different dates, and the one
\* that started first wrote last, over the other's metadata
C19_Witness ==
  /\ everOverlap
  /\ \E s, q \in Returned :
       /\ s # q
       /\ inv[s].callNo < inv[q].callNo
       /\ inv[s].today # inv[q].today
       /\ inv[s].saveOk /\ inv[q].saveOk
       /\ inv[s].metaChanged /\ inv[q].metaChanged
       /\ lastRefresh[1].callNo = inv[s].callNo
       /\ metaFile = OwnMetadata(inv[s])

\* ------------------------------------------------- C21 (step ordering)
\* the positions of a step in the log of an invocation
At(log, step) == {k \in DOMAIN log : log[k] = step}

Before(log, first, second) ==
  \A a \in At(log, first), b \in At(log, second) : a < b

\* C21: in the steps of one invocation the metadata read precedes the
\* search request, the search request has completed before any download
\* starts, every download started has settled before the metadata write,
\* the write precedes the return and nothing follows the return; there is
\* at most one search request and at most one write.
C21_StepOrder ==
  \A s \in Started :
    LET log == inv[s].log
    IN  /\ log[1] = "read" /\ At(log, "read") = {1}
        /\ Before(log, "read", "search")
        /\ Before(log, "search", "searched")
        /\ Before(log, "searched", "download")
        /\ Before(log, "download", "write") /\ Before(log, "settled", "write")
        /\ \A w \in At(log, "write") :
             Cardinality({k \in At(log, "download") : k < w})
               = Cardinality({k \in At(log, "settled") : k < w})
        /\ Before(log, "write", "return")
        /\ \A k \in At(log, "return") : k = Len(log)
        /\ Cardinality(At(log, "search")) <= 1
        /\ Cardinality(At(log, "write")) <= 1
        /\ Cardinality(At(log, "search")) = inv[s].nSearch
        /\ Cardinality(At(log, "write")) = inv[s].nSave

\* an invocation went through every step, with two downloads
C21_Witness ==
  \E s \in Started :
    inv[s].log = <<"read", "search", "searched", "download", "settled",
                   "download", "settled", "write", "return">>

\* ---------------------------------------------- C22 (serialised calls)
Flying == {s \in Slots : inv[s].pc \in InFlight}

\* C22: in the app at most one invocation of getCuratedImages is in
\* flight at any time.
C22_Serialized == Cardinality(Flying) <= 1

\* ------------------------------------------------------ C23 (termination)
\* C23: when every search request and every download eventually
\* completes, every invocation of getCuratedImages eventually returns.
C23_Termination ==
  \A s \in Slots : (inv[s].pc \in InFlight) ~> (inv[s].pc = "returned")

\* --------------------------------------------- C24 (download when absent)
\* the positions whose download was started by invocation s
Attempted(s) == inv[s].pending \cup inv[s].settled

\* the positions the loop of cacheImages has left behind
Passed(s) ==
  IF inv[s].pc = "downloading" THEN 1..(inv[s].i - 1)
  ELSE IF inv[s].pc = "returned" /\ inv[s].nSave = 1 THEN 1..Len(inv[s].images)
  ELSE {}

\* the ids that had a local file when cacheImages of invocation s began:
\* no other invocation runs while s is in flight, and the records of one
\* call have different ids
FilesBefore(s) ==
  files \ {inv[s].images[k].id : k \in inv[s].settled \ inv[s].failed}

\* the record at position j was emitted with this localPath
EmittedWith(s, j, localPath) ==
  \E k \in DOMAIN inv[s].cached :
    /\ inv[s].cached[k].id = inv[s].images[j].id
    /\ inv[s].cached[k].localPath = localPath

NeedsDownload(s, j) ==
  inv[s].images[j].url # "" /\ inv[s].images[j].id \notin FilesBefore(s)

\* C24 as stated: a download is attempted for a record exactly when its
\* url is not empty and no local file named by its id exists; a record
\* whose file exists is emitted with the local file URI; no record is
\* downloaded twice in one call.
C24_OnlyWhenAbsentAsStated ==
  \A s \in Started :
    /\ \A j \in Passed(s) \cup inv[s].pending :
         /\ j \in Attempted(s) <=> NeedsDownload(s, j)
         /\ (j \in Passed(s) /\ inv[s].images[j].url # ""
               /\ inv[s].images[j].id \in FilesBefore(s))
              => EmittedWith(s, j, FileUri(inv[s].images[j].id))
    /\ inv[s].nDownload = Cardinality(Attempted(s))

\* the outer catch of cacheImages handled the record at position j: it
\* was emitted with its url as localPath without any download
CaughtAt(s, j) ==
  /\ j \in Passed(s) \ Attempted(s)
  /\ inv[s].images[j].url # ""
  /\ EmittedWith(s, j, inv[s].images[j].url)

\* C24: a download is attempted only for a record whose url is not empty
\* and that has no local file; unless the outer catch handled the record,
\* a download is attempted for every such record, and a record whose file
\* exists is emitted with the local file URI; no record is downloaded
\* twice in one call.
C24_OnlyWhenAbsent ==
  \A s \in Started :
    /\ \A j \in Attempted(s) : NeedsDownload(s, j)
    /\ \A j \in Passed(s) :
         ~CaughtAt(s, j)
           => /\ NeedsDownload(s, j) => j \in Attempted(s)
              /\ (inv[s].images[j].url # "" /\ ~NeedsDownload(s, j))
                   => EmittedWith(s, j, FileUri(inv[s].images[j].id))
    /\ inv[s].nDownload = Cardinality(Attempted(s))

\* one call emitted a record from its existing file without a download
\* and downloaded another one
C24_Witness ==
  \E s \in Started :
    /\ inv[s].pc = "returned" /\ Len(inv[s].images) = 2
    /\ inv[s].settled = {2} /\ inv[s].failed = {}
    /\ inv[s].images[1].id \in FilesBefore(s)
    /\ EmittedWith(s, 1, FileUri(inv[s].images[1].id))
    /\ EmittedWith(s, 2, FileUri(inv[s].images[2].id))

\* ------------------------------------------- C25 (no content is lost)
\* C25: an invocation that starts with persisted images returns a
\* non-empty sequence and leaves persisted images; an invocation returns
\* an empty sequence only when the fetcher returned no record and nothing
\* was persisted before.
C25_NeverLosesContent ==
  \A s \in Returned :
    /\ Len(Persisted(s).images) > 0
         => Len(inv[s].result) > 0 /\ Len(Logical(metaFile).images) > 0
    /\ Len(inv[s].result) = 0
         => Len(inv[s].images) = 0 /\ Len(Persisted(s).images) = 0

\* ------------------------------------ C26 (displayed set and the store)
\* invocations of the App overlapped, all of them have returned, and one
\* of them refreshed and saved its metadata
OverlapSettled ==
  /\ app.mounted
  /\ everOverlap
  /\ \A s \in Slots : inv[s].pc = "returned"
  /\ \E s \in Slots : inv[s].nSave = 1 /\ inv[s].saveOk

\* C26: once overlapping invocations started by the App have all returned
\* and one of them refreshed, the list last handed to setCuratedImages is
\* the persisted images sequence.
C26_DisplayedIsStored ==
  OverlapSettled => app.curatedImages = Logical(metaFile).images

\* ------------------------------------------ C27 (topic and cache day)
\* the invocations that take the FRESH path at this step
TakingFresh ==
  {s \in Slots : inv'[s].callNo # inv[s].callNo /\ inv'[s].path = "fresh"}

\* C27: whenever an invocation takes the FRESH path, the topic that was
\* used to fetch the persisted images is the topic getTodayTopic returns
\* at that moment.
C27_TopicOfCacheDay ==
  [][TakingFresh # {} => StoredTopic = getTodayTopic(now, tzOffset)]_vars

====
